---- MODULE Spec2Model ----
(***************************************************************************)
(* A model of the EPF Flower Data Science API (FastAPI service):           *)
(*   - routes/parameters.py: the Firestore "parameters" document and its   *)
(*     retrieve / add / update / delete-keys endpoints;                    *)
(*   - routes/data.py: loading the Iris CSV;                               *)
(*   - routes/authentication.py: register / login / list users /           *)
(*     make-admin over the Firebase Authentication user store.             *)
(*                                                                         *)
(* The parameters and data endpoints are plain `def` handlers: FastAPI     *)
(* runs them on a thread pool, so two requests interleave at every call    *)
(* to the document store.  A handler is therefore one action per store     *)
(* call; everything the handler does locally after a call (merging,        *)
(* building the response, mapping an exception to a status) belongs to     *)
(* the action of that call.  The Firestore client itself is assumed to     *)
(* answer (no GoogleCloudError is injected).                               *)
(***************************************************************************)
EXTENDS Integers, Sequences, FiniteSets, TLC

(***************************************************************************)
(* Sample domains and bounds.                                              *)
(***************************************************************************)
\* Field names of the parameters document (the two the seeding script writes).
Keys == {"n_estimators", "criterion"}
\* Field values, as their JSON text.
Vals == {"100", "gini"}
\* Threads of the server's pool serving parameters requests.
Workers == {"w1", "w2"}
\* Largest number of fields in the body of one add / update request.
MaxArgLen == 2
\* Largest length of the list in the body of one delete request.
MaxDelLen == 2
\* Number of parameters / data requests served in one behaviour.
MaxRequests == 2

VARIABLES
    doc,        \* the Firestore document parameters/parameters
    req,        \* per worker thread: the parameters request it is serving
    responses,  \* the parameters / data requests answered so far, in order
    users,      \* the Firebase Authentication user store, in creation order
    reg,        \* per register request in flight: where it is in the handler
    adm,        \* the admin-gated request in flight (list users / make-admin)
    reply       \* the latest response of an authentication endpoint

paramVars == <<doc, req, responses>>

authVars == <<users, reg, adm, reply>>

vars == <<doc, req, responses, users, reg, adm, reply>>

(***************************************************************************)
(* Firestore document snapshots: `exists` and `to_dict()`.                 *)
(***************************************************************************)
EmptyMap == [k \in {} |-> "100"]

NoDoc == [exists |-> FALSE, data |-> EmptyMap]

SnapshotOfDropsEmpty(m) ==
    IF DOMAIN m = {} THEN NoDoc ELSE [exists |-> TRUE, data |-> m]

SnapshotOf(m) == [exists |-> TRUE, data |-> m]

\* firestore_start.py seeds the document with these two fields.
SeedData == [k \in Keys |-> IF k = "n_estimators" THEN "100" ELSE "gini"]

Mappings(n) ==
    UNION {[S -> Vals] : S \in {T \in SUBSET Keys : Cardinality(T) <= n}}

KeyLists(n) == UNION {[1..k -> Keys] : k \in 0..n}

(***************************************************************************)
(* {**existing, **new}: a shallow union in which the right operand wins.   *)
(***************************************************************************)
MergeLeftWins(existing, new) ==
    [k \in DOMAIN existing \cup DOMAIN new |->
        IF k \in DOMAIN existing THEN existing[k] ELSE new[k]]

MergeNewOnly(existing, new) == new

Merge(existing, new) ==
    [k \in DOMAIN existing \cup DOMAIN new |->
        IF k \in DOMAIN new THEN new[k] ELSE existing[k]]

(***************************************************************************)
(* for param in parameters_to_delete:                                      *)
(*     if param in current_parameters: del current_parameters[param]       *)
(***************************************************************************)
DeleteKeysFirstOnly(current, params) ==
    IF params = <<>> THEN current
    ELSE [k \in DOMAIN current \ {Head(params)} |-> current[k]]

RECURSIVE DeleteKeys(_, _)
DeleteKeys(current, params) ==
    IF params = <<>> THEN current
    ELSE LET param == Head(params)
             next == IF param \in DOMAIN current
                     THEN [k \in DOMAIN current \ {param} |-> current[k]]
                     ELSE current
         IN  DeleteKeys(next, Tail(params))

(***************************************************************************)
(* Exceptions and the except-chains that turn them into a status.          *)
(***************************************************************************)
HTTPException(code) == [type |-> "HTTPException", status |-> code]

\* retrieve_parameters: `except Exception` only.
RetrieveExcept(e) == 500

UpdateExceptNoReraise(e) == 500

\* update_parameters: GoogleCloudError, then HTTPException (re-raised), then
\* Exception.
UpdateExcept(e) ==
    IF e.type = "GoogleCloudError" THEN 500
    ELSE IF e.type = "HTTPException" THEN e.status
    ELSE 500

\* delete_parameters: GoogleCloudError, then Exception.
DeleteExcept(e) == IF e.type = "GoogleCloudError" THEN 500 ELSE 500

\* load_iris_data: FileNotFoundError, ValueError, JSONDecodeError, Exception.
LoadExcept(e) ==
    IF e.type = "FileNotFoundError" THEN 404
    ELSE IF e.type = "ValueError" THEN 400
    ELSE IF e.type = "JSONDecodeError" THEN 400
    ELSE 500

(***************************************************************************)
(* Requests and responses.                                                 *)
(***************************************************************************)
Idle == [pc |-> "idle", op |-> "none", arg |-> EmptyMap, snap |-> NoDoc]

Busy == {w \in Workers : req[w].pc # "idle"}

\* A new request may be taken while the behaviour's budget lasts.
CanStart(w) ==
    /\ req[w].pc = "idle"
    /\ Len(responses) + Cardinality(Busy) < MaxRequests

Response(op, arg, pre, status, body) ==
    [op |-> op, arg |-> arg, pre |-> pre, status |-> status, body |-> body]

Error(detail) == [detail |-> detail]

InitParams ==
    /\ doc \in {NoDoc, SnapshotOf(SeedData)}
    /\ req = [w \in Workers |-> Idle]
    /\ responses = <<>>

(***************************************************************************)
(* GET /retrieve-parameters                                                *)
(***************************************************************************)
RetrieveParameters(w) ==
    /\ CanStart(w)
    /\ LET snap == doc
       IN  responses' = Append(responses,
             IF snap.exists
             THEN Response("retrieve", EmptyMap, snap, 200,
                           [parameters |-> snap.data])
             ELSE Response("retrieve", EmptyMap, snap,
                           RetrieveExcept(HTTPException(404)),
                           Error("Parameters document not found in Firestore")))
    /\ UNCHANGED <<doc, req>>
    /\ UNCHANGED authVars

(***************************************************************************)
(* POST /add-parameters                                                    *)
(***************************************************************************)
AddGet(w, new_parameters) ==
    /\ CanStart(w)
    /\ req' = [req EXCEPT ![w] = [pc |-> "got", op |-> "add",
                                  arg |-> new_parameters, snap |-> doc]]
    /\ UNCHANGED <<doc, responses>>
    /\ UNCHANGED authVars

AddSet(w) ==
    /\ req[w].pc = "got"
    /\ req[w].op = "add"
    /\ LET snap == req[w].snap
           new_parameters == req[w].arg
       IN  IF snap.exists
           THEN LET merged_parameters == Merge(snap.data, new_parameters)
                IN  /\ doc' = SnapshotOf(merged_parameters)
                    /\ responses' = Append(responses,
                         Response("add", new_parameters, snap, 200,
                           [message |-> "Parameters merged successfully",
                            parameters |-> merged_parameters]))
           ELSE /\ doc' = SnapshotOf(new_parameters)
                /\ responses' = Append(responses,
                     Response("add", new_parameters, snap, 200,
                       [message |-> "New parameters document created successfully",
                        parameters |-> new_parameters]))
    /\ req' = [req EXCEPT ![w] = Idle]
    /\ UNCHANGED authVars

\* The document add_parameters stores for body `new_parameters` after
\* reading `snap`: the merge when the document exists, the body otherwise.
AddStored(snap, new_parameters) ==
    IF snap.exists
    THEN SnapshotOf(Merge(snap.data, new_parameters))
    ELSE SnapshotOf(new_parameters)

(***************************************************************************)
(* PUT /update-parameters                                                  *)
(***************************************************************************)
UpdateGet(w, updated_parameters) ==
    /\ CanStart(w)
    /\ IF doc.exists
       THEN /\ req' = [req EXCEPT ![w] = [pc |-> "got", op |-> "update",
                                          arg |-> updated_parameters,
                                          snap |-> doc]]
            /\ UNCHANGED responses
       ELSE /\ responses' = Append(responses,
                 Response("update", updated_parameters, doc,
                          UpdateExcept(HTTPException(404)),
                          Error("Parameters document not found in Firestore")))
            /\ UNCHANGED req
    /\ UNCHANGED doc
    /\ UNCHANGED authVars

UpdateSet(w) ==
    /\ req[w].pc = "got"
    /\ req[w].op = "update"
    /\ LET current_parameters == req[w].snap.data
           merged_parameters == Merge(current_parameters, req[w].arg)
       IN  /\ doc' = SnapshotOf(merged_parameters)
           /\ responses' = Append(responses,
                Response("update", req[w].arg, req[w].snap, 200,
                  [message |-> "Parameters updated successfully",
                   parameters |-> merged_parameters]))
    /\ req' = [req EXCEPT ![w] = Idle]
    /\ UNCHANGED authVars

(***************************************************************************)
(* DELETE /delete-parameters                                               *)
(***************************************************************************)
DeleteGet(w, parameters_to_delete) ==
    /\ CanStart(w)
    /\ IF doc.exists
       THEN /\ req' = [req EXCEPT ![w] = [pc |-> "got", op |-> "delete",
                                          arg |-> parameters_to_delete,
                                          snap |-> doc]]
            /\ UNCHANGED responses
       ELSE /\ responses' = Append(responses,
                 Response("delete", parameters_to_delete, doc,
                          DeleteExcept(HTTPException(404)),
                          Error("Parameters document not found in Firestore")))
            /\ UNCHANGED req
    /\ UNCHANGED doc
    /\ UNCHANGED authVars

DeleteSet(w) ==
    /\ req[w].pc = "got"
    /\ req[w].op = "delete"
    /\ LET current_parameters == DeleteKeys(req[w].snap.data, req[w].arg)
       IN  /\ doc' = SnapshotOf(current_parameters)
           /\ responses' = Append(responses,
                Response("delete", req[w].arg, req[w].snap, 200,
                  [message |-> "Parameters deleted successfully",
                   deleted_parameters |-> req[w].arg,
                   remaining_parameters |-> current_parameters]))
    /\ req' = [req EXCEPT ![w] = Idle]
    /\ UNCHANGED authVars

(***************************************************************************)
(* GET /load-iris-data                                                     *)
(***************************************************************************)
\* df.to_dict(orient="records"): the rows of the file, here their Id column.
IrisRecords == <<1, 2, 3>>

\* load_iris_data_as_dataframe: the raised exception, or the frame read.
LoadIrisDataAsDataframe(present) ==
    IF ~present
    THEN [raised |-> TRUE, exc |-> HTTPException(404), df |-> <<>>]
    ELSE [raised |-> FALSE, exc |-> HTTPException(200), df |-> IrisRecords]

\* `present` is what os.path.exists(iris_file) answers for this request.
LoadIrisData(w, present) ==
    /\ CanStart(w)
    /\ LET r == LoadIrisDataAsDataframe(present)
       IN  responses' = Append(responses,
             IF r.raised
             THEN Response("load", present, NoDoc, LoadExcept(r.exc),
                           [detail |-> "Internal server error", data |-> <<>>])
             ELSE Response("load", present, NoDoc, 200,
                           [message |-> "Iris dataset loaded successfully",
                            data |-> r.df]))
    /\ UNCHANGED <<doc, req>>
    /\ UNCHANGED authVars

(***************************************************************************)
(* routes/authentication.py.                                               *)
(*                                                                         *)
(* The handlers are `async def` bodies that call the blocking Firebase     *)
(* Admin SDK; requests served by different server processes interleave at  *)
(* every SDK call, so a handler is one action per SDK call.  The user      *)
(* store is the project's Firebase Authentication backend: a user's uid is *)
(* modelled as its position in creation order.                             *)
(***************************************************************************)
\* E-mail addresses clients register and log in with.
Emails == {"a@epf.fr", "b@epf.fr", "c@epf.fr"}
\* Register requests that can be in flight together.
Registrars == {"r1", "r2"}

\* user.custom_claims: None, or {'admin': <bool>}.
NoClaims == [present |-> FALSE, admin |-> FALSE]

AdminClaims(b) == [present |-> TRUE, admin |-> b]

Uids == 1..Len(users)

PossibleUids == 1..Cardinality(Emails)

EmailsInUse == {users[u].email : u \in Uids}

\* auth.set_custom_user_claims(uid, claims): replaces the user's claims.
SetCustomUserClaims(uid, custom_claims) ==
    [users EXCEPT ![uid].custom_claims = custom_claims]

\* not (not user.custom_claims or not user.custom_claims.get('admin'))
HasAdminClaim(user) == user.custom_claims.present /\ user.custom_claims.admin

NoRegistration == [pc |-> "idle", uid |-> 0, user_count |-> 0]

\* `current_user` is the uid of the user admin_required returned.
NoAdminRequest ==
    [pc |-> "idle", op |-> "none", uid |-> 0, current_user |-> 0]

NoReply == [op |-> "none", status |-> 0]

InitAuth ==
    /\ users = <<>>
    /\ reg = [r \in Registrars |-> NoRegistration]
    /\ adm = NoAdminRequest
    /\ reply = NoReply

Init == InitParams /\ InitAuth

(***************************************************************************)
(* POST /auth/register                                                     *)
(***************************************************************************)
UserResponse(message, uid, is_admin) ==
    [op |-> "register", status |-> 201, message |-> message, uid |-> uid,
     is_admin |-> is_admin]

\* for _ in page.users: user_count += 1; if user_count > 1: break
CountUsers == IF Len(users) > 1 THEN 2 ELSE Len(users)

FirstUserTestAlways(user_count) == TRUE

\* if user_count <= 1
FirstUserTest(user_count) == user_count <= 1

\* auth.create_user succeeds: the e-mail is not taken.
RegCreate(r, email) ==
    /\ reg[r].pc = "idle"
    /\ email \notin EmailsInUse
    /\ users' = Append(users, [email |-> email, custom_claims |-> NoClaims])
    /\ reg' = [reg EXCEPT ![r] = [pc |-> "created", uid |-> Len(users) + 1,
                                  user_count |-> 0]]
    /\ UNCHANGED <<adm, reply>>
    /\ UNCHANGED paramVars

\* auth.create_user raises (the e-mail is taken, or the SDK refuses): the
\* outer `except Exception` answers 400.
RegCreateFail(r, email) ==
    /\ reg[r].pc = "idle"
    /\ reply' = [op |-> "register", status |-> 400, email |-> email]
    /\ UNCHANGED <<users, reg, adm>>
    /\ UNCHANGED paramVars

\* auth.list_users() and the counting loop.
RegCount(r) ==
    /\ reg[r].pc = "created"
    /\ reg' = [reg EXCEPT ![r].pc = "counted", ![r].user_count = CountUsers]
    /\ UNCHANGED <<users, adm, reply>>
    /\ UNCHANGED paramVars

\* auth.list_users() raises: the inner `except Exception` takes over.
RegCountFail(r) ==
    /\ reg[r].pc = "created"
    /\ reg' = [reg EXCEPT ![r].pc = "fallback"]
    /\ UNCHANGED <<users, adm, reply>>
    /\ UNCHANGED paramVars

\* auth.set_custom_user_claims in either branch of the test, and the return.
RegSetClaims(r) ==
    /\ reg[r].pc = "counted"
    /\ IF FirstUserTest(reg[r].user_count)
       THEN /\ users' = SetCustomUserClaims(reg[r].uid, AdminClaims(TRUE))
            /\ reply' = UserResponse("First user created successfully as admin",
                                     reg[r].uid, TRUE)
       ELSE /\ users' = SetCustomUserClaims(reg[r].uid, AdminClaims(FALSE))
            /\ reply' = UserResponse("User created successfully",
                                     reg[r].uid, FALSE)
    /\ reg' = [reg EXCEPT ![r] = NoRegistration]
    /\ UNCHANGED adm
    /\ UNCHANGED paramVars

\* auth.set_custom_user_claims raises in either branch: the inner
\* `except Exception` takes over.
RegSetClaimsFail(r) ==
    /\ reg[r].pc = "counted"
    /\ reg' = [reg EXCEPT ![r].pc = "fallback"]
    /\ UNCHANGED <<users, adm, reply>>
    /\ UNCHANGED paramVars

\* The inner except: mark the user non-admin and answer 201.
RegFallback(r) ==
    /\ reg[r].pc = "fallback"
    /\ users' = SetCustomUserClaims(reg[r].uid, AdminClaims(FALSE))
    /\ reply' = UserResponse("User created successfully", reg[r].uid, FALSE)
    /\ reg' = [reg EXCEPT ![r] = NoRegistration]
    /\ UNCHANGED adm
    /\ UNCHANGED paramVars

\* The inner except's own set_custom_user_claims raises: the outer
\* `except Exception` answers 400.
RegFallbackFail(r) ==
    /\ reg[r].pc = "fallback"
    /\ reply' = [op |-> "register", status |-> 400,
                 email |-> users[reg[r].uid].email]
    /\ reg' = [reg EXCEPT ![r] = NoRegistration]
    /\ UNCHANGED <<users, adm>>
    /\ UNCHANGED paramVars

(***************************************************************************)
(* POST /auth/login                                                        *)
(***************************************************************************)
\* auth.get_user_by_email, then auth.create_custom_token; the password is
\* not looked at.
Login(email) ==
    /\ reply' = IF email \in EmailsInUse
                THEN LET uid == CHOOSE u \in Uids : users[u].email = email
                     IN  [op |-> "login", status |-> 200, token |-> uid,
                          uid |-> uid]
                ELSE [op |-> "login", status |-> 401, email |-> email]
    /\ UNCHANGED <<users, reg, adm>>
    /\ UNCHANGED paramVars

(***************************************************************************)
(* admin_required, the dependency of the two admin-gated endpoints.        *)
(*                                                                         *)
(* An Authorization header is a scheme and a token; token 0 stands for a   *)
(* string auth.verify_id_token rejects, token u > 0 for a valid ID token   *)
(* of the user with uid u.  A request with no Authorization header at all  *)
(* is answered by FastAPI's APIKeyHeader(auto_error=True) before           *)
(* admin_required runs, and is not part of this model.                     *)
(***************************************************************************)
Headers ==
      {[scheme |-> "Basic", token |-> 0]}
    \cup {[scheme |-> "Bearer", token |-> t] : t \in 0..Len(users)}

\* admin_required's `except Exception`.
AdminRequiredExcept(e) == 401

AdminRequiredNoAdminTest(authorization) ==
    IF authorization.scheme # "Bearer" THEN 401
    ELSE IF authorization.token \notin Uids THEN 401
    ELSE 200

\* The status admin_required raises, or 200 when it returns the user.
AdminRequired(authorization) ==
    IF authorization.scheme # "Bearer" THEN 401
    ELSE IF authorization.token \notin Uids
         THEN AdminRequiredExcept([type |-> "InvalidIdTokenError"])
    ELSE IF ~HasAdminClaim(users[authorization.token])
         THEN AdminRequiredExcept(HTTPException(403))
    ELSE 200

(***************************************************************************)
(* GET /auth/users                                                         *)
(***************************************************************************)
ListUsersAuth(authorization) ==
    /\ adm.pc = "idle"
    /\ LET status == AdminRequired(authorization)
       IN  IF status = 200
           THEN /\ adm' = [pc |-> "authorized", op |-> "list_users",
                           uid |-> 0,
                           current_user |-> authorization.token]
                /\ UNCHANGED reply
           ELSE /\ reply' = [op |-> "list_users", status |-> status,
                             authorization |-> authorization]
                /\ UNCHANGED adm
    /\ UNCHANGED <<users, reg>>
    /\ UNCHANGED paramVars

ListUsers ==
    /\ adm.pc = "authorized"
    /\ adm.op = "list_users"
    /\ reply' = [op |-> "list_users", status |-> 200,
                 users |-> [u \in Uids |->
                     [uid |-> u, email |-> users[u].email,
                      admin |-> IF users[u].custom_claims.present
                                THEN users[u].custom_claims.admin
                                ELSE FALSE]]]
    /\ adm' = NoAdminRequest
    /\ UNCHANGED <<users, reg>>
    /\ UNCHANGED paramVars

\* auth.list_users() raises: 400.
ListUsersFail ==
    /\ adm.pc = "authorized"
    /\ adm.op = "list_users"
    /\ reply' = [op |-> "list_users", status |-> 400]
    /\ adm' = NoAdminRequest
    /\ UNCHANGED <<users, reg>>
    /\ UNCHANGED paramVars

(***************************************************************************)
(* POST /auth/make-admin                                                   *)
(***************************************************************************)
MakeAdminAuth(authorization, uid) ==
    /\ adm.pc = "idle"
    /\ LET status == AdminRequired(authorization)
       IN  IF status = 200
           THEN /\ adm' = [pc |-> "authorized", op |-> "make_admin",
                           uid |-> uid,
                           current_user |-> authorization.token]
                /\ UNCHANGED reply
           ELSE /\ reply' = [op |-> "make_admin", status |-> status,
                             authorization |-> authorization, uid |-> uid]
                /\ UNCHANGED adm
    /\ UNCHANGED <<users, reg>>
    /\ UNCHANGED paramVars

\* auth.set_custom_user_claims(request.uid, {'admin': True})
MakeAdmin ==
    /\ adm.pc = "authorized"
    /\ adm.op = "make_admin"
    /\ adm.uid \in Uids
    /\ users' = SetCustomUserClaims(adm.uid, AdminClaims(TRUE))
    /\ reply' = [op |-> "make_admin", status |-> 200, uid |-> adm.uid]
    /\ adm' = NoAdminRequest
    /\ UNCHANGED reg
    /\ UNCHANGED paramVars

\* auth.set_custom_user_claims raises (no such uid, or the SDK refuses): 400.
MakeAdminFail ==
    /\ adm.pc = "authorized"
    /\ adm.op = "make_admin"
    /\ reply' = [op |-> "make_admin", status |-> 400, uid |-> adm.uid]
    /\ adm' = NoAdminRequest
    /\ UNCHANGED <<users, reg>>
    /\ UNCHANGED paramVars

(***************************************************************************)
(* Specifications.                                                         *)
(***************************************************************************)
\* The parameters and data endpoints, requests interleaving.
Next ==
    \/ \E w \in Workers : RetrieveParameters(w)
    \/ \E w \in Workers, n \in Mappings(MaxArgLen) : AddGet(w, n)
    \/ \E w \in Workers : AddSet(w)
    \/ \E w \in Workers, n \in Mappings(MaxArgLen) : UpdateGet(w, n)
    \/ \E w \in Workers : UpdateSet(w)
    \/ \E w \in Workers, l \in KeyLists(MaxDelLen) : DeleteGet(w, l)
    \/ \E w \in Workers : DeleteSet(w)
    \/ \E w \in Workers, present \in BOOLEAN : LoadIrisData(w, present)

Spec == Init /\ [][Next]_vars

\* The authentication endpoints, requests interleaving, SDK calls failing
\* at will.
NextAuth ==
    \/ \E r \in Registrars, e \in Emails : RegCreate(r, e)
    \/ \E r \in Registrars, e \in Emails : RegCreateFail(r, e)
    \/ \E r \in Registrars : RegCount(r)
    \/ \E r \in Registrars : RegCountFail(r)
    \/ \E r \in Registrars : RegSetClaims(r)
    \/ \E r \in Registrars : RegSetClaimsFail(r)
    \/ \E r \in Registrars : RegFallback(r)
    \/ \E r \in Registrars : RegFallbackFail(r)
    \/ \E e \in Emails : Login(e)
    \/ \E h \in Headers : ListUsersAuth(h)
    \/ ListUsers
    \/ ListUsersFail
    \/ \E h \in Headers, u \in PossibleUids : MakeAdminAuth(h, u)
    \/ MakeAdmin
    \/ MakeAdminFail

\* A fresh deployment: the parameters document not yet seeded.
InitFresh == Init /\ ~doc.exists

SpecAuth == InitFresh /\ [][NextAuth]_vars

\* The authentication endpoints, requests interleaving, no SDK call failing.
NextAuthNoFail ==
    \/ \E r \in Registrars, e \in Emails : RegCreate(r, e)
    \/ \E r \in Registrars : RegCount(r)
    \/ \E r \in Registrars : RegSetClaims(r)
    \/ \E e \in Emails : Login(e)
    \/ \E h \in Headers : ListUsersAuth(h)
    \/ ListUsers
    \/ \E h \in Headers, u \in Uids : MakeAdminAuth(h, u)
    \/ MakeAdmin

SpecAuthNoFail == InitFresh /\ [][NextAuthNoFail]_vars

\* A request is served alone when no other request is in flight.
AuthQuiet == adm.pc = "idle" /\ \A r \in Registrars : reg[r].pc = "idle"

RegAlone(r) == adm.pc = "idle" /\ \A q \in Registrars \ {r} : reg[q].pc = "idle"

AdmAlone == \A r \in Registrars : reg[r].pc = "idle"

\* The authentication endpoints, each request completing before the next
\* starts, no SDK call failing.
NextAuthSeq ==
    \/ \E r \in Registrars, e \in Emails : AuthQuiet /\ RegCreate(r, e)
    \/ \E r \in Registrars : RegAlone(r) /\ RegCount(r)
    \/ \E r \in Registrars : RegAlone(r) /\ RegSetClaims(r)
    \/ \E e \in Emails : AuthQuiet /\ Login(e)
    \/ \E h \in Headers : AuthQuiet /\ ListUsersAuth(h)
    \/ AdmAlone /\ ListUsers
    \/ \E h \in Headers, u \in Uids : AuthQuiet /\ MakeAdminAuth(h, u)
    \/ AdmAlone /\ MakeAdmin

SpecAuthSeq == InitFresh /\ [][NextAuthSeq]_vars

(***************************************************************************)
(* Properties.                                                             *)
(***************************************************************************)
Answered == 1..Len(responses)

\* A request that wrote the document.
Wrote(i) ==
    /\ responses[i].op \in {"add", "update", "delete"}
    /\ responses[i].status = 200

\* No request wrote the document after request i answered.
LatestWrite(i) == \A j \in Answered : j > i => ~Wrote(j)

\* The mapping a handler read: empty when the document does not exist.
Held(pre) == IF pre.exists THEN pre.data ELSE EmptyMap

\* C1: an add with body N that read mapping C answers 200 with the shallow
\* union of C and N in which N wins on shared keys and every other key of C
\* keeps its value, and the document it stored is the mapping it returned.
C1_AddMerges ==
    \A i \in Answered :
        responses[i].op = "add" =>
            LET C == Held(responses[i].pre)
                N == responses[i].arg
                P == responses[i].body.parameters
            IN  /\ responses[i].status = 200
                /\ DOMAIN P = DOMAIN C \cup DOMAIN N
                /\ \A k \in DOMAIN N : P[k] = N[k]
                /\ \A k \in DOMAIN C \ DOMAIN N : P[k] = C[k]
                /\ LatestWrite(i) => doc = SnapshotOf(P)

\* C1 witness: an add overrode one field of a two-field document, kept the
\* other, and the stored document is what it returned.
C1_Witness ==
    \E i \in Answered :
        /\ responses[i].op = "add"
        /\ responses[i].pre.exists
        /\ \E k \in DOMAIN responses[i].arg :
              /\ k \in DOMAIN responses[i].pre.data
              /\ responses[i].pre.data[k] # responses[i].arg[k]
              /\ responses[i].body.parameters[k] = responses[i].arg[k]
        /\ \E k \in DOMAIN responses[i].pre.data :
              /\ k \notin DOMAIN responses[i].arg
              /\ responses[i].body.parameters[k] = responses[i].pre.data[k]
        /\ doc = SnapshotOf(responses[i].body.parameters)

\* C2: an update that finds no document answers 404 and leaves none; an add
\* that finds no document answers 200 and creates it with exactly its body.
C2_UpdateNeedsDocAddCreates ==
    \A i \in Answered :
        /\ (responses[i].op = "update" /\ ~responses[i].pre.exists) =>
              /\ responses[i].status = 404
              /\ i = Len(responses) => ~doc.exists
        /\ (responses[i].op = "add" /\ ~responses[i].pre.exists) =>
              /\ responses[i].status = 200
              /\ responses[i].body.parameters = responses[i].arg
              /\ LatestWrite(i) => doc = SnapshotOf(responses[i].arg)

\* C2 witness: an update was refused on the missing document, then an add
\* created it.
C2_Witness ==
    \E i, j \in Answered :
        /\ i < j
        /\ responses[i].op = "update"
        /\ responses[i].status = 404
        /\ responses[j].op = "add"
        /\ ~responses[j].pre.exists
        /\ responses[j].arg # EmptyMap
        /\ doc = SnapshotOf(responses[j].arg)

\* C3: retrieve answers 404 when the document does not exist, and otherwise
\* 200 with the document's mapping.
C3_RetrieveNotFound ==
    \A i \in Answered :
        responses[i].op = "retrieve" =>
            IF responses[i].pre.exists
            THEN /\ responses[i].status = 200
                 /\ responses[i].body.parameters = responses[i].pre.data
            ELSE responses[i].status = 404

\* C4: delete-keys answers 404 when the document does not exist, and then
\* writes nothing.
C4_DeleteNotFound ==
    \A i \in Answered :
        (responses[i].op = "delete" /\ ~responses[i].pre.exists) =>
            /\ responses[i].status = 404
            /\ i = Len(responses) => ~doc.exists

\* C6: loading the data set while the CSV file is missing answers 404 with
\* no rows.
C6_LoadNotFound ==
    \A i \in Answered :
        (responses[i].op = "load" /\ ~responses[i].arg) =>
            /\ responses[i].status = 404
            /\ responses[i].body.data = <<>>

\* C5: GET /auth/users answers 401 when the header carries no valid Bearer
\* token, and 403 when the token is valid and its user is not an admin.
C5_ListUsersGuard ==
    (reply.op = "list_users" /\ reply.status \notin {200, 400}) =>
        LET h == reply.authorization
        IN  /\ (h.scheme # "Bearer" \/ h.token \notin Uids) =>
                  reply.status = 401
            /\ (h.scheme = "Bearer" /\ h.token \in Uids
                  /\ ~HasAdminClaim(users[h.token])) => reply.status = 403

\* C7: served one after another with no SDK failure, the register that
\* creates the first user answers is_admin = true and every later one
\* is_admin = false, and the user's admin claim is set to what was answered.
C7_FirstRegisterIsAdmin ==
    (reply.op = "register" /\ reply.status = 201) =>
        /\ reply.is_admin = (reply.uid = 1)
        /\ users[reply.uid].custom_claims = AdminClaims(reply.is_admin)

\* C7 witness: the third register has just answered is_admin = false, the
\* first user is an admin and the second was marked non-admin.
C7_Witness ==
    /\ reply.op = "register"
    /\ reply.status = 201
    /\ reply.uid = 3
    /\ ~reply.is_admin
    /\ users[1].custom_claims = AdminClaims(TRUE)
    /\ users[2].custom_claims = AdminClaims(FALSE)
    /\ users[3].custom_claims = AdminClaims(FALSE)

\* C8: with no SDK failure, once every register request has answered, the
\* first user created is flagged admin, whatever the interleaving.
C8_FirstCreatedIsAdmin ==
    (Len(users) >= 1 /\ \A r \in Registrars : reg[r].pc = "idle") =>
        HasAdminClaim(users[1])

\* C9: a user's admin claim, once true, is never set back to false.
C9_AdminNeverRevoked ==
    [][\A u \in Uids : HasAdminClaim(users[u]) => HasAdminClaim(users'[u])]_vars

\* The change request i made to field k: it set it, or it removed it.
Touches(i, k) ==
    IF responses[i].op = "delete"
    THEN \E n \in DOMAIN responses[i].arg : responses[i].arg[n] = k
    ELSE k \in DOMAIN responses[i].arg

\* Mapping m shows the change request i made to field k.
Shows(m, i, k) ==
    IF responses[i].op = "delete"
    THEN k \notin DOMAIN m
    ELSE k \in DOMAIN m /\ m[k] = responses[i].arg[k]

\* Requests i and j both wrote, j right after i and last of all, j did not
\* touch field k, and the stored document does not show what i did to k.
LostUpdate(i, j, k) ==
    /\ i < j
    /\ Wrote(i)
    /\ Wrote(j)
    /\ LatestWrite(j)
    /\ \A n \in Answered : (i < n /\ n < j) => ~Wrote(n)
    /\ Touches(i, k)
    /\ ~Touches(j, k)
    /\ ~Shows(doc.data, i, k)

\* C10: two writers can both answer 200 while the stored document lacks the
\* change of one of them, and this happens exactly through the unguarded
\* read-then-overwrite: the later writer's snapshot was read before the
\* earlier writer wrote, and was written back whole.
C10_LostUpdateByStaleRead ==
    \A i, j \in Answered : \A k \in Keys :
        LostUpdate(i, j, k) =>
            ~Shows(responses[j].pre.data, i, k)

\* C10 witness: two requests each changed a field of their own, both answered
\* 200, and the stored document shows only the later writer's change.
C10_Witness ==
    \E i, j \in Answered : \E k \in Keys :
        /\ LostUpdate(i, j, k)
        /\ \E k2 \in Keys \ {k} :
              /\ Touches(j, k2)
              /\ Shows(doc.data, j, k2)
              /\ ~Shows(responses[j].pre.data, j, k2)
        /\ responses[i].status = 200
        /\ responses[j].status = 200

\* The keys a delete request lists.
Listed(params) == {params[n] : n \in DOMAIN params}

\* C11: a delete on an existing document answers 200, removes exactly the
\* listed keys that are present and keeps every other key with its value; a
\* list of absent keys only leaves the mapping as it was; the response names
\* the list it was given, and the stored document is remaining_parameters.
C11_DeleteRemovesListed ==
    \A i \in Answered :
        (responses[i].op = "delete" /\ responses[i].pre.exists) =>
            LET C == responses[i].pre.data
                L == Listed(responses[i].arg)
                R == responses[i].body.remaining_parameters
            IN  /\ responses[i].status = 200
                /\ DOMAIN R = DOMAIN C \ L
                /\ \A k \in DOMAIN R : R[k] = C[k]
                /\ (L \cap DOMAIN C = {}) => R = C
                /\ responses[i].body.deleted_parameters = responses[i].arg
                /\ LatestWrite(i) => doc = SnapshotOf(R)

\* C11 witness: one delete removed a present key, ignored an absent one it
\* also listed, and kept another field; a later delete of an absent key
\* changed nothing.
C11_Witness ==
    \E i, j \in Answered :
        /\ i < j
        /\ responses[i].op = "delete"
        /\ responses[i].status = 200
        /\ Listed(responses[i].arg) \cap DOMAIN responses[i].pre.data # {}
        /\ DOMAIN responses[i].body.remaining_parameters # {}
        /\ responses[j].op = "delete"
        /\ responses[j].status = 200
        /\ responses[j].arg # <<>>
        /\ Listed(responses[j].arg) \cap DOMAIN responses[j].pre.data = {}
        /\ responses[j].body.remaining_parameters = responses[j].pre.data
        /\ doc = SnapshotOf(responses[j].pre.data)

\* Add j ran right after add i: it read the document that i stored.
AddThenAdd(i, j) ==
    /\ i < j
    /\ responses[i].op = "add"
    /\ responses[j].op = "add"
    /\ responses[j].pre = SnapshotOf(responses[i].body.parameters)

\* C14: when add A is followed by add B and A and B share no key, the
\* document stored is the one adding B and then A to the same starting
\* document stores, and it holds every key of A and of B.
C14_AddCommutesOnDisjointKeys ==
    \A i, j \in Answered :
        (/\ AddThenAdd(i, j)
         /\ DOMAIN responses[i].arg \cap DOMAIN responses[j].arg = {}) =>
            LET A == responses[i].arg
                B == responses[j].arg
                AB == SnapshotOf(responses[j].body.parameters)
                BA == AddStored(AddStored(responses[i].pre, B), A)
            IN  /\ AB = BA
                /\ DOMAIN A \cup DOMAIN B \subseteq DOMAIN AB.data
                /\ LatestWrite(j) => doc = BA

\* C14 witness: two adds with disjoint, non-empty bodies ran one after the
\* other and the document holds both fields.
C14_Witness ==
    \E i, j \in Answered :
        /\ AddThenAdd(i, j)
        /\ responses[i].arg # EmptyMap
        /\ responses[j].arg # EmptyMap
        /\ DOMAIN responses[i].arg \cap DOMAIN responses[j].arg = {}
        /\ DOMAIN doc.data = DOMAIN responses[i].arg \cup DOMAIN responses[j].arg
        /\ \A k \in DOMAIN responses[i].arg : doc.data[k] = responses[i].arg[k]
        /\ \A k \in DOMAIN responses[j].arg : doc.data[k] = responses[j].arg[k]

\* C15: once the document exists it exists for ever; a retrieve that finds
\* it (be it empty) answers 200 with its mapping, and an update that finds
\* it answers 200.
C15_DocumentStaysExistent ==
    /\ [][doc.exists => doc'.exists]_vars
    /\ [](\A i \in Answered :
            /\ (responses[i].op = "retrieve" /\ responses[i].pre.exists) =>
                  /\ responses[i].status = 200
                  /\ responses[i].body.parameters = responses[i].pre.data
            /\ (responses[i].op = "update" /\ responses[i].pre.exists) =>
                  responses[i].status = 200)

\* C15 witness: a delete removed every field, the document still exists,
\* and a later retrieve answered 200 with the empty mapping.
C15_Witness ==
    \E i, j \in Answered :
        /\ i < j
        /\ responses[i].op = "delete"
        /\ DOMAIN responses[i].pre.data # {}
        /\ DOMAIN responses[i].body.remaining_parameters = {}
        /\ responses[j].op = "retrieve"
        /\ responses[j].status = 200
        /\ DOMAIN responses[j].body.parameters = {}
        /\ doc.exists

\* C12: make-admin gets past admin_required only with a token that verifies
\* to a user whose admin claim is true at the time of the verification; only
\* a make-admin request that got past it sets a claim to true, and of the
\* user it names; a rejected make-admin request changes no user.
C12_MakeAdminNeedsAdmin ==
    [][/\ (adm.pc = "idle" /\ adm'.pc = "authorized"
             /\ adm'.op = "make_admin") =>
              /\ adm'.current_user \in Uids
              /\ HasAdminClaim(users[adm'.current_user])
       /\ \A u \in Uids :
              (/\ reg' = reg
               /\ ~HasAdminClaim(users[u])
               /\ HasAdminClaim(users'[u])) =>
                  /\ adm.pc = "authorized"
                  /\ adm.op = "make_admin"
                  /\ adm.uid = u
       /\ (adm.pc = "idle" /\ adm'.pc = "idle" /\ reply' # reply
             /\ reply'.op = "make_admin") =>
              /\ users' = users
              /\ reply'.status \in {401, 403}
              /\ ~(/\ reply'.authorization.scheme = "Bearer"
                   /\ reply'.authorization.token \in Uids
                   /\ HasAdminClaim(users[reply'.authorization.token]))
      ]_vars

\* C12 witness: make-admin has just promoted the second user, whose own
\* registration had marked it non-admin.
C12_Witness ==
    /\ reply.op = "make_admin"
    /\ reply.status = 200
    /\ reply.uid = 2
    /\ Len(users) >= 2
    /\ HasAdminClaim(users[2])
    /\ \A r \in Registrars : reg[r].pc = "idle"

\* C13: a register whose user was created always answers 201 with the
\* created uid, and with is_admin = false and the claim set to false when
\* counting or marking failed; a register answers 400 only when no user was
\* created.
C13_RegisterFallsBack ==
    [][/\ \A r \in Registrars :
              (reg[r].pc \in {"created", "counted", "fallback"}
                 /\ reg'[r].pc = "idle") =>
                  /\ reply'.op = "register"
                  /\ reply'.status = 201
                  /\ reply'.uid = reg[r].uid
                  /\ reg[r].pc = "fallback" =>
                        /\ ~reply'.is_admin
                        /\ users'[reg[r].uid].custom_claims = AdminClaims(FALSE)
       /\ (reply' # reply /\ reply'.op = "register"
             /\ reply'.status = 400) => (reg' = reg /\ users' = users)
      ]_vars

====
